---- MODULE Spec2Model ----
(***************************************************************************)
(* Round lifecycle engine of the crash game: the round scheduler           *)
(* (GameService.start/stop/startNewRound/activateRound/crashRound), the    *)
(* round document methods (addBet / processCashout / finalizeRound, in     *)
(* both variants the repository carries: the save() variant of             *)
(* models/GameRound.js and the updateOne variant), the settlement          *)
(* handlers (GameService.placeBet / processCashout) and the wallet         *)
(* deposit route.                                                          *)
(*                                                                         *)
(* Units.  Time is in milliseconds.  Multipliers are integers in 1e-4      *)
(* (the 4 decimals calculateMultiplier rounds to).  USD stakes and the usd *)
(* wallet are whole dollars.  A bet's cryptoAmount is in 1e-8 coin (the 8  *)
(* decimals usdToCrypto rounds to).  Crypto payouts and the btc/eth        *)
(* wallets are in 1e-10 coin, cashout USD amounts in 1e-6 USD.             *)
(*                                                                         *)
(* Every await of the code is a step boundary: the part of a handler       *)
(* between two awaits is one atomic action (single-threaded event loop).   *)
(* A storage operation takes effect when it is issued and may instead      *)
(* fail (reject), at most MaxFailures times in a behaviour.  The clock is  *)
(* event driven: it advances to the next armed timer once every callback   *)
(* that is due has run and every pending storage call has returned.        *)
(*                                                                         *)
(* The pure functions of utils/crypto.js (calculateMultiplier,              *)
(* generateCrashPoint, verifyCrashPoint) and the price service              *)
(* (CryptoApiService.fetchPrices) have specifications of their own, in      *)
(* which callers apply them to arguments drawn from small sets and the      *)
(* calls are logged.  sha256 is a fixed but arbitrary function of its       *)
(* input; of its digest only the leading word that generateCrashPoint reads *)
(* is kept, in units of 2^16.                                               *)
(*                                                                         *)
(* The bet route of routes/game.js (POST /api/game/bet), which works on    *)
(* its own document of the round, and the socket bookkeeping of            *)
(* WebSocketService (connect / authenticate / disconnect) have             *)
(* specifications of their own as well.  SpecSettle lets time pass while a *)
(* handler waits on an await; the other specifications let every await     *)
(* return before the next timer is due.                                    *)
(*                                                                         *)
(* History fields (not in the schemas) record what the handlers did: a     *)
(* bet's claimed / credits / debited, a round's finalized (its             *)
(* finalizeRound call has returned), and usdDeposited.                     *)
(***************************************************************************)
EXTENDS Integers, Sequences, FiniteSets, TLC

\* ------------------------------------------------------------------ bounds
MaxRounds == 2          \* rounds created in a behaviour
NumProcs == 2           \* request handlers that can be in flight together
MaxRequests == 3        \* Spec: client requests issued in a behaviour
MaxLightRequests == 2   \* SpecLight: client requests issued in a behaviour
MaxFailures == 1        \* storage operations that reject in a behaviour
MaxStops == 1           \* stop() calls in a behaviour
MaxTime == 13000        \* Spec, SpecLight: the clock does not advance past this
MaxSchedTime == 20000   \* SpecRun, SpecSched: the clock does not advance past this
MaxLiveTime == 50000    \* SpecLive: the clock does not advance past this
MaxCalls == 2           \* SpecMultiplier, SpecCrashPoint, SpecPrices: calls of the utility functions in a behaviour
MaxPriceTime == 15000   \* SpecPrices: the clock does not advance past this

\* ------------------------------------------------------- program constants
WaitingPeriod == 3000             \* setTimeout(activateRound, 3000)
RetryDelay == 5000                \* setTimeout(startNewRound, 5000) in catch
NextRoundDelay == 5000            \* setTimeout(startNewRound, 5000) after crash
RoundDuration == 10000            \* this.roundDuration
MultiplierUpdateInterval == 1000  \* this.multiplierUpdateInterval, MULTIPLIER_UPDATE_INTERVAL=1000
GrowthFactor == 100               \* this.growthFactor = 0.01, in 1e-4
DefaultMaxCrash == 1000000        \* parseFloat(MAX_CRASH_MULTIPLIER) || 100, in 1e-4
VerifyTolerance == 10             \* verifyCrashPoint: 0.001, in 1e-4
CacheTimeout == 10000             \* CryptoApiService.cacheTimeout
PriceClockStep == 5000            \* SpecPrices: time between two looks at the clock
HashScale == 65536                \* 2^32 in units of 2^16: randomValue = word / HashScale
DefaultUsd == 1000                \* wallet.usd default of a new Player

Players == {"p1", "p2"}
Bettors == {"p1"}
Currencies == {"btc"}
Stakes == {10, 1001}               \* usdAmount of a bet request
Deposits == {10}                  \* amount of a deposit request
\* arguments of placeBet calls that its validation has to turn away as well
AnyStakes == {0 - 10, 0, 10}
AnyCurrencies == {"btc", "usd"}
CrashPoints == {10000, 20000}     \* crash points drawn for a new round (1.0, 2.0)
Price(c) == IF c = "btc" THEN 10000 ELSE 2000
\* arguments of the calls of CryptoUtils.calculateMultiplier: elapsed times in
\* ms, growth factors in 1e-4 per second (0.01 is the default)
ElapsedTimes == {0 - 1000, 0 - 1, 0, 1, 7, 10, 5000, 10000}
GrowthFactors == {0, 1, 100, 1000}   \* rates of growth: not negative
\* arguments of generateCrashPoint, and the leading 32 bits readUInt32BE(0)
\* takes from the sha256 digest, in units of 2^16 (0 .. 65535)
Seeds == {"s1", "s2"}
RoundIdStrings == {"r1", "r2"}
HashInputs == Seeds \X RoundIdStrings
HashWords == {0, 32768, 65535}
\* MAX_CRASH_MULTIPLIER in 1e-4: 0 stands for unset (parseFloat gives NaN) or 0;
\* a configured maximum is a crash multiplier, so it is not below 1
MaxCrashEnvs == {0, 20000}
\* CryptoApiService: the prices of its constructor, the fallback prices and
\* the answers of the upstream API
NoPrices == [btc |-> 0, eth |-> 0]
FallbackPrices == [btc |-> 60000, eth |-> 3000]
UpstreamPrices == {[btc |-> 10000, eth |-> 2000], [btc |-> 20000, eth |-> 2500]}
\* what a caller of verifyCrashPoint adds to a generated crash point, in 1e-4
Perturbations == {0, 9, 11, 0 - 11}

\* a Player document; exists = FALSE stands for "no such document"
NoPlayer == [exists |-> FALSE, usd |-> 0, btc |-> 0, eth |-> 0]
\* new Player({playerId, username}): the schema defaults, not yet inserted
NewPlayer == [exists |-> FALSE, usd |-> DefaultUsd, btc |-> 0, eth |-> 0]

\* the record of a round that only the scheduler's object has written to
NoRouteWrites == [bets |-> <<>>, totalBets |-> 0]
\* socket ids
SocketIds == {"s1", "s2", "s3"}

\* a request handler that has not been called yet
IdleProc == [op |-> "idle", pc |-> "idle", player |-> "none", amount |-> 0,
             currency |-> "none", price |-> 0, cryptoAmount |-> 0, doc |-> NoPlayer,
             round |-> 0, bet |-> 0, total |-> 0, multiplier |-> 0, result |-> "none"]

VARIABLES
  roundImpl,           \* which GameRound model is deployed: "save" | "updateOne"
  now,                 \* Date.now()
  isRunning,           \* GameService.isRunning
  currentRound,        \* GameService.currentRound: 0 (null) or index in rounds
  rounds,              \* the GameRound objects created so far (in memory)
  multiplierInterval,  \* GameService.multiplierInterval: 0 or index in acts
  acts,                \* closures of activateRound: interval + timeout
  timers,              \* pending one-shot timers, in creation order
  sched,               \* scheduler continuations waiting on a storage await
  dbPlayers,           \* Player collection
  procs,               \* client request handlers
  ledger,              \* Transaction collection
  failures,            \* storage rejections so far
  stops,               \* stop() calls so far
  requests,            \* client requests issued so far
  usdDeposited,        \* history: usd credited to each player by deposits
  multiplierCalls,     \* calls of CryptoUtils.calculateMultiplier: arguments, result
  sha256,              \* the digest: leading word of sha256(`${seed}-${roundId}`)
  maxCrashEnv,         \* process.env.MAX_CRASH_MULTIPLIER
  crashPointCalls,     \* log of the calls of CryptoUtils.generateCrashPoint
  verifyCalls,         \* log of the calls of CryptoUtils.verifyCrashPoint
  prices,              \* CryptoApiService.prices
  lastFetch,           \* CryptoApiService.lastFetch
  fetches,             \* fetchPrices calls waiting for the upstream response
  priceCalls,          \* log of the fetchPrices calls that returned; seen: how
                       \* many calls had returned when this one was made
  dbRounds,            \* GameRound collection: what documents other than the
                       \* scheduler's object wrote to the record of each round
  sockets,             \* ids of the sockets that are connected
  connectedClients,    \* WebSocketService.connectedClients: socket id -> player id
  playerSockets,       \* WebSocketService.playerSockets: player id -> socket id
  connectedPlayers     \* GameService.connectedPlayers

schedVars == <<isRunning, currentRound, multiplierInterval, acts, timers, sched, stops>>
clientVars == <<dbPlayers, procs, ledger, requests, usdDeposited>>
crashVars == <<sha256, maxCrashEnv, crashPointCalls, verifyCalls>>
priceVars == <<prices, lastFetch, fetches, priceCalls>>
routeVars == <<dbRounds>>
socketVars == <<sockets, connectedClients, playerSockets, connectedPlayers>>
utilVars == <<multiplierCalls, crashVars, priceVars, routeVars, socketVars>>
serviceVars == <<now, isRunning, currentRound, rounds, multiplierInterval,
                 acts, timers, sched, dbPlayers, procs, ledger, failures, stops,
                 requests, usdDeposited>>
vars == <<roundImpl, now, isRunning, currentRound, rounds, multiplierInterval,
          acts, timers, sched, dbPlayers, procs, ledger, failures, stops, requests,
          usdDeposited, multiplierCalls, sha256, maxCrashEnv, crashPointCalls,
          verifyCalls, prices, lastFetch, fetches, priceCalls, dbRounds, sockets,
          connectedClients, playerSockets, connectedPlayers>>

\* --------------------------------------------------------- pure functions

\* n / d rounded to the nearest integer, halves away from zero (toFixed)
RoundDiv(n, d) ==
  IF n >= 0 THEN (2 * n + d) \div (2 * d)
            ELSE 0 - ((2 * (0 - n) + d) \div (2 * d))

\* a multiplier that shrinks with the elapsed time
calculateMultiplierDecaying(elapsedTime, growthFactor) ==
  10000 - RoundDiv(elapsedTime * growthFactor, 1000)

\* CryptoUtils.calculateMultiplier: 1 + (elapsed/1000) * growthFactor, 4 decimals
calculateMultiplier(elapsedTime, growthFactor) ==
  10000 + RoundDiv(elapsedTime * growthFactor, 1000)

\* CryptoUtils.usdToCrypto: usd / price, 8 decimals (result in 1e-8 coin)
usdToCrypto(usdAmount, pricePerCrypto) ==
  usdAmount * (100000000 \div pricePerCrypto)
    + RoundDiv(usdAmount * (100000000 % pricePerCrypto), pricePerCrypto)

\* bet.cryptoAmount * multiplier, in 1e-10 coin
PayoutCrypto(cryptoAmount, multiplier) ==
  (cryptoAmount \div 100) * multiplier + ((cryptoAmount % 100) * multiplier) \div 100

\* cashoutCryptoAmount * bet.priceAtTime, in 1e-6 USD
PayoutUsd(cashoutCryptoAmount, priceAtTime) ==
  (cashoutCryptoAmount \div 10000) * priceAtTime

Max(a, b) == IF a >= b THEN a ELSE b
Min(a, b) == IF a <= b THEN a ELSE b

\* generateCrashPoint without the cap
generateCrashPointUncapped(seed, roundId) ==
  LET randomValue == sha256[<<seed, roundId>>]
  IN [crashPoint |-> Max(10000, (9900 * HashScale) \div (HashScale - randomValue)),
      seed |-> seed, hash |-> sha256[<<seed, roundId>>], randomValue |-> randomValue]

\* CryptoUtils.generateCrashPoint: randomValue from the digest,
\* max(1, (1 / (1 - randomValue)) * (1 - 0.01)), capped at the configured
\* maximum; crash points in 1e-4, randomValue in 1 / HashScale
generateCrashPoint(seed, roundId) ==
  LET hash == sha256[<<seed, roundId>>]
      randomValue == hash
      crashPoint == Max(10000, (9900 * HashScale) \div (HashScale - randomValue))
      maxCrash == IF maxCrashEnv # 0 THEN maxCrashEnv ELSE DefaultMaxCrash
      finalCrashPoint == Min(crashPoint, maxCrash)
  IN [crashPoint |-> finalCrashPoint, seed |-> seed, hash |-> hash,
      randomValue |-> randomValue]

\* a verification that accepts every value
verifyCrashPointAny(crashPoint, seed, roundId) == TRUE

\* CryptoUtils.verifyCrashPoint: Math.abs(generated.crashPoint - crashPoint) < 0.001
verifyCrashPoint(crashPoint, seed, roundId) ==
  LET generated == generateCrashPoint(seed, roundId)
      d == generated.crashPoint - crashPoint
  IN (IF d >= 0 THEN d ELSE 0 - d) < VerifyTolerance

\* ---------------------------------------------------------------- helpers
Remove(s, i) == [j \in 1..(Len(s) - 1) |-> IF j < i THEN s[j] ELSE s[j + 1]]

NewRound(cp) ==
  [status |-> "waiting", startTime |-> now, crashPoint |-> cp, maxMultiplier |-> 0,
   bets |-> <<>>, totalBets |-> 0, totalCashouts |-> 0, totalWinners |-> 0,
   totalLosers |-> 0, houseProfit |-> 0, finalized |-> FALSE]

\* index of the first bet of a player, settled or not; 0 when there is none
FindBet(bets, p) ==
  LET S == {i \in 1..Len(bets) : bets[i].playerId = p}
  IN IF S = {} THEN 0 ELSE CHOOSE i \in S : \A j \in S : i <= j

\* index of the first open bet of a player: bets.find(b => b.playerId === playerId
\* && !b.cashoutMultiplier); 0 when there is none
FindOpenBet(bets, p) ==
  LET S == {i \in 1..Len(bets) : bets[i].playerId = p /\ bets[i].cashoutMultiplier = 0}
  IN IF S = {} THEN 0 ELSE CHOOSE i \in S : \A j \in S : i <= j

CanFail == failures < MaxFailures

\* ------------------------------------------------------------------- Init
\* the service after construction, before start()
ServiceInit ==
  /\ roundImpl \in {"save", "updateOne"}
  /\ now = 0
  /\ isRunning = FALSE
  /\ currentRound = 0
  /\ rounds = <<>>
  /\ multiplierInterval = 0
  /\ acts = <<>>
  /\ timers = <<>>
  /\ sched = <<>>
  /\ dbPlayers = [p \in Players |-> NoPlayer]
  /\ procs = [i \in 1..NumProcs |-> IdleProc]
  /\ ledger = {}
  /\ failures = 0
  /\ stops = 0
  /\ requests = 0
  /\ usdDeposited = [p \in Players |-> 0]
  /\ dbRounds = [r \in 1..MaxRounds |-> NoRouteWrites]
  /\ sockets = {}
  /\ connectedClients = [s \in SocketIds |-> "none"]
  /\ playerSockets = [p \in Players |-> "none"]
  /\ connectedPlayers = {}

\* no utility call was logged
NoCalls ==
  /\ multiplierCalls = {}
  /\ crashPointCalls = <<>>
  /\ verifyCalls = <<>>
  /\ prices = NoPrices
  /\ lastFetch = 0
  /\ fetches = <<>>
  /\ priceCalls = <<>>

Init ==
  /\ ServiceInit
  /\ NoCalls
  /\ sha256 = [x \in HashInputs |-> 0]
  /\ maxCrashEnv = 0

\* sha256 is some fixed function of its input, the environment some setting
InitCrashPoint ==
  /\ ServiceInit
  /\ NoCalls
  /\ sha256 \in [HashInputs -> HashWords]
  /\ maxCrashEnv \in MaxCrashEnvs

\* ------------------------------------------------------------- scheduler

OpenBets(bets) == {i \in 1..Len(bets) : bets[i].cashoutMultiplier = 0}

\* GameService.startNewRound up to `await this.currentRound.save()`: the new
\* GameRound replaces this.currentRound before it is saved
startNewRound(cp) ==
  /\ Len(rounds) < MaxRounds
  /\ rounds' = Append(rounds, NewRound(cp))
  /\ currentRound' = Len(rounds) + 1
  /\ sched' = Append(sched, [kind |-> "created", round |-> Len(rounds) + 1, mult |-> 0,
                             losers |-> 0, profit |-> 0])

\* GameService.startNewRound after `await this.currentRound.save()`: arm the
\* activation timer, or on a rejected save the retry timer
startNewRoundSaved(k) ==
  /\ k \in 1..Len(sched)
  /\ sched[k].kind = "created"
  /\ sched' = Remove(sched, k)
  /\ \/ /\ timers' = Append(timers, [kind |-> "activate", due |-> now + WaitingPeriod])
        /\ UNCHANGED failures
     \/ /\ CanFail
        /\ failures' = failures + 1
        /\ timers' = Append(timers, [kind |-> "retry", due |-> now + RetryDelay])
  /\ UNCHANGED <<roundImpl, utilVars, now, isRunning, currentRound, rounds, multiplierInterval, acts, stops, clientVars>>

\* GameService.start
start ==
  /\ ~isRunning
  /\ isRunning' = TRUE
  /\ \E cp \in CrashPoints : startNewRound(cp)
  /\ UNCHANGED <<roundImpl, utilVars, now, multiplierInterval, acts, timers, failures, stops, clientVars>>

\* GameService.stop: clears the tick interval; with an active round it then
\* calls this.finalizeRound, which GameService does not define, so the call
\* throws and the round object is left as it is
stop ==
  /\ isRunning
  /\ stops < MaxStops
  /\ stops' = stops + 1
  /\ isRunning' = FALSE
  /\ multiplierInterval' = 0
  /\ acts' = IF multiplierInterval = 0 THEN acts
             ELSE [acts EXCEPT ![multiplierInterval].live = FALSE]
  /\ UNCHANGED <<roundImpl, utilVars, now, currentRound, rounds, timers, sched, failures, clientVars>>

\* a retry callback that does not call startNewRound
retryDropped(cp) == UNCHANGED <<rounds, currentRound, sched>>

\* the callback of the retry timer in the catch of startNewRound:
\* () => this.startNewRound()
retry(cp) == startNewRound(cp)

\* the retry and next-round timers: () => this.startNewRound()
startNewRoundTimer(k) ==
  /\ k \in 1..Len(timers)
  /\ timers[k].kind \in {"retry", "nextRound"}
  /\ timers[k].due <= now
  /\ timers' = Remove(timers, k)
  /\ IF timers[k].kind = "retry"
     THEN \E cp \in CrashPoints : retry(cp)
     ELSE \E cp \in CrashPoints : startNewRound(cp)
  /\ UNCHANGED <<roundImpl, utilVars, now, isRunning, multiplierInterval, acts, failures, stops, clientVars>>

\* GameService.activateRound, run by the activation timer
activateRound(k) ==
  /\ k \in 1..Len(timers)
  /\ timers[k].kind = "activate"
  /\ timers[k].due <= now
  /\ timers' = Remove(timers, k)
  /\ IF currentRound = 0 \/ rounds[currentRound].status # "waiting"
     THEN UNCHANGED <<rounds, acts, multiplierInterval>>
     ELSE /\ rounds' = [rounds EXCEPT ![currentRound].status = "active"]
          /\ acts' = Append(acts, [startTime |-> now, currentMultiplier |-> 10000,
                                   live |-> TRUE, nextTick |-> now + MultiplierUpdateInterval,
                                   timeoutPending |-> TRUE, timeoutDue |-> now + RoundDuration,
                                   round |-> currentRound])
          /\ multiplierInterval' = Len(acts) + 1
  /\ UNCHANGED <<roundImpl, utilVars, now, isRunning, currentRound, sched, failures, stops, clientVars>>

\* finalizeRound writing the other final status of the schema's enum
finalizeRoundCompleted(r, impl) ==
  [r EXCEPT !.status = "completed"]

\* gameRoundSchema.methods.finalizeRound up to its storage call: status (and
\* endTime) are set first; the save variant also sets totalLosers and
\* houseProfit before the call, the updateOne variant only after the await,
\* from the values computed before it
finalizeRound(r, impl) ==
  LET totalLosers == Cardinality(OpenBets(r.bets))
      houseProfit == r.totalBets * 1000000 - r.totalCashouts
  IN IF impl = "save"
     THEN [r EXCEPT !.status = "crashed", !.totalLosers = totalLosers,
                    !.houseProfit = houseProfit]
     ELSE [r EXCEPT !.status = "crashed"]

\* GameService.crashRound(finalMultiplier) up to `await finalizeRound()`, on
\* the scheduler state rs/as (the calling callback may already have changed
\* them)
crashRound(finalMultiplier, rs, as) ==
  IF currentRound = 0 \/ rs[currentRound].status # "active"
  THEN /\ rounds' = rs
       /\ acts' = as
       /\ UNCHANGED <<multiplierInterval, sched>>
  ELSE LET r == rs[currentRound]
       IN /\ multiplierInterval' = 0
          /\ acts' = IF multiplierInterval = 0 THEN as
                     ELSE [as EXCEPT ![multiplierInterval].live = FALSE]
          /\ rounds' = [rs EXCEPT ![currentRound] = finalizeRound(r, roundImpl)]
          /\ sched' = Append(sched, [kind |-> "crashed", round |-> currentRound,
                                     mult |-> finalMultiplier,
                                     losers |-> Cardinality(OpenBets(r.bets)),
                                     profit |-> r.totalBets * 1000000 - r.totalCashouts])

\* GameService.crashRound after `await this.currentRound.finalizeRound()`:
\* arm the next-round timer; a rejected storage call ends crashRound there
crashRoundFinalized(k) ==
  /\ k \in 1..Len(sched)
  /\ sched[k].kind = "crashed"
  /\ sched' = Remove(sched, k)
  /\ \/ /\ timers' = Append(timers, [kind |-> "nextRound", due |-> now + NextRoundDelay])
        /\ rounds' = IF roundImpl = "updateOne"
                     THEN [rounds EXCEPT ![sched[k].round].totalLosers = sched[k].losers,
                                         ![sched[k].round].houseProfit = sched[k].profit,
                                         ![sched[k].round].finalized = TRUE]
                     ELSE [rounds EXCEPT ![sched[k].round].finalized = TRUE]
        /\ UNCHANGED failures
     \/ /\ CanFail
        /\ failures' = failures + 1
        /\ UNCHANGED <<timers, rounds>>
  /\ UNCHANGED <<roundImpl, utilVars, now, isRunning, currentRound, multiplierInterval, acts, stops, clientVars>>

\* the setInterval callback of activateRound (activation a)
multiplierTick(a) ==
  /\ a \in 1..Len(acts)
  /\ acts[a].live
  /\ acts[a].nextTick <= now
  /\ LET elapsedTime == now - acts[a].startTime
         m == calculateMultiplier(elapsedTime, GrowthFactor)
         as == [acts EXCEPT ![a].currentMultiplier = m,
                            ![a].nextTick = @ + MultiplierUpdateInterval]
         rs == IF m > rounds[currentRound].maxMultiplier
               THEN [rounds EXCEPT ![currentRound].maxMultiplier = m]
               ELSE rounds
     IN IF m >= rounds[currentRound].crashPoint
        THEN crashRound(m, rs, as)
        ELSE /\ rounds' = rs
             /\ acts' = as
             /\ UNCHANGED <<multiplierInterval, sched>>
  /\ UNCHANGED <<roundImpl, utilVars, now, isRunning, currentRound, timers, failures, stops, clientVars>>

\* a round-duration callback that never crashes the round
roundTimeoutIdle(a) ==
  /\ a \in 1..Len(acts)
  /\ acts[a].timeoutPending
  /\ acts[a].timeoutDue <= now
  /\ acts' = [acts EXCEPT ![a].timeoutPending = FALSE]
  /\ UNCHANGED <<roundImpl, utilVars, now, isRunning, currentRound, rounds, multiplierInterval,
                 timers, sched, failures, stops, clientVars>>

\* the round-duration setTimeout callback of activateRound (activation a)
roundTimeout(a) ==
  /\ a \in 1..Len(acts)
  /\ acts[a].timeoutPending
  /\ acts[a].timeoutDue <= now
  /\ LET as == [acts EXCEPT ![a].timeoutPending = FALSE]
     IN IF currentRound # 0 /\ rounds[currentRound].status = "active"
        THEN crashRound(acts[a].currentMultiplier, rounds, as)
        ELSE /\ acts' = as
             /\ UNCHANGED <<rounds, multiplierInterval, sched>>
  /\ UNCHANGED <<roundImpl, utilVars, now, isRunning, currentRound, timers, failures, stops, clientVars>>

\* the times the armed timers, intervals and timeouts are due
DueTimes ==
  {timers[k].due : k \in 1..Len(timers)}
    \cup {acts[a].nextTick : a \in {x \in 1..Len(acts) : acts[x].live}}
    \cup {acts[a].timeoutDue : a \in {x \in 1..Len(acts) : acts[x].timeoutPending}}

InFlight(i) == procs[i].pc \notin {"idle", "done"}

\* the clock advances to the next due time; callbacks that are due run first,
\* and storage calls return before the next timer is due
clock(horizon) ==
  /\ DueTimes # {}
  /\ \A t \in DueTimes : t > now
  /\ sched = <<>>
  /\ \A i \in 1..NumProcs : ~InFlight(i)
  /\ LET next == CHOOSE t \in DueTimes : \A u \in DueTimes : t <= u
     IN /\ next <= horizon
        /\ now' = next
  /\ UNCHANGED <<roundImpl, utilVars, isRunning, currentRound, rounds, multiplierInterval, acts, timers, sched, failures, stops, clientVars>>

Scheduler ==
  \/ start
  \/ \E k \in 1..Len(sched) : startNewRoundSaved(k)
  \/ \E k \in 1..Len(sched) : crashRoundFinalized(k)
  \/ \E k \in 1..Len(timers) : startNewRoundTimer(k)
  \/ \E k \in 1..Len(timers) : activateRound(k)
  \/ \E a \in 1..Len(acts) : multiplierTick(a)
  \/ \E a \in 1..Len(acts) : roundTimeout(a)

\* ------------------------------------------------------ request handlers

\* updateWallet with the sign of the amount lost
updateWalletSubtracting(doc, c, amount) ==
  IF c = "usd" THEN [doc EXCEPT !.usd = @ - amount]
  ELSE IF c = "btc" THEN [doc EXCEPT !.btc = @ - amount]
  ELSE IF c = "eth" THEN [doc EXCEPT !.eth = @ - amount]
  ELSE doc

\* playerSchema.methods.updateWallet on the handler's copy of the document
updateWallet(doc, c, amount) ==
  IF c = "usd" THEN [doc EXCEPT !.usd = @ + amount]
  ELSE IF c = "btc" THEN [doc EXCEPT !.btc = @ + amount]
  ELSE IF c = "eth" THEN [doc EXCEPT !.eth = @ + amount]
  ELSE doc

\* a save that writes every path of the handler's copy
savedWalletWhole(db, doc, c) == [doc EXCEPT !.exists = TRUE]

\* document.save() of a Player copy after updateWallet(c, ..): a new document
\* is inserted whole, an existing one gets the modified path wallet.<c> set
savedWallet(db, doc, c) ==
  IF ~doc.exists THEN [doc EXCEPT !.exists = TRUE]
  ELSE IF c = "usd" THEN [db EXCEPT !.usd = doc.usd]
  ELSE IF c = "btc" THEN [db EXCEPT !.btc = doc.btc]
  ELSE IF c = "eth" THEN [db EXCEPT !.eth = doc.eth]
  ELSE db

\* an insert of a playerId that is already in the collection is rejected
\* (unique index)
DuplicateKey(db, doc) == ~doc.exists /\ db.exists

Balances(doc) == <<doc.usd, doc.btc, doc.eth>>

\* the handler returns or throws: its locals are gone, the request kind and
\* its result stay visible until the slot serves the next request
Finished(pr, res) == [IdleProc EXCEPT !.op = pr.op, !.pc = "done", !.result = res]

Finish(i, res) == [procs EXCEPT ![i] = Finished(@, res)]

\* a request is served by the first free handler slot (the slots are
\* interchangeable); the server listens once the service was started
CanCall(i) ==
  /\ i \in 1..NumProcs
  /\ ~InFlight(i)
  /\ \A j \in 1..(i - 1) : InFlight(j)
  /\ Len(rounds) > 0
  /\ requests' = requests + 1

\* the storage call just issued rejects
Rejects == CanFail /\ failures' = failures + 1

\* a currency check that lets every currency pass
isValidCurrencyAny(c) == TRUE

\* CryptoUtils.isValidCurrency
isValidCurrency(c) == c \in {"btc", "eth"}

\* GameService.placeBet up to `await this.cryptoApi.getAllPrices()`: the
\* validation of the amount and the currency, then the status check
placeBet(i, p, usdAmount, c) ==
  /\ CanCall(i)
  /\ LET pr == [IdleProc EXCEPT !.op = "bet", !.player = p, !.amount = usdAmount,
                                !.currency = c]
     IN procs' = [procs EXCEPT ![i] =
          IF usdAmount <= 0
          THEN Finished(pr, "Invalid bet amount")
          ELSE IF ~isValidCurrency(c)
          THEN Finished(pr, "Invalid currency")
          ELSE IF currentRound = 0 \/ rounds[currentRound].status # "waiting"
          THEN Finished(pr, "No active round accepting bets")
          ELSE [pr EXCEPT !.pc = "prices"]]
  /\ UNCHANGED <<roundImpl, utilVars, now, schedVars, rounds, dbPlayers, ledger, failures,
                 usdDeposited>>

\* placeBet from the prices to `await Player.findOne(..)`
placeBetPrices(i) ==
  /\ procs[i].op = "bet" /\ procs[i].pc = "prices"
  /\ LET c == procs[i].currency
         pricePerCrypto == Price(c)
     IN \/ /\ procs' = [procs EXCEPT ![i].pc = "found", ![i].price = pricePerCrypto,
                           ![i].cryptoAmount = usdToCrypto(procs[i].amount, pricePerCrypto),
                           ![i].doc = dbPlayers[procs[i].player]]
           /\ UNCHANGED failures
        \/ /\ Rejects
           /\ procs' = Finish(i, "storage error")
  /\ UNCHANGED <<roundImpl, utilVars, now, schedVars, rounds, dbPlayers, ledger, requests,
                 usdDeposited>>

\* betData, with the history fields of the bet
BetData(pr) ==
  [playerId |-> pr.player, usdAmount |-> pr.amount, cryptoAmount |-> pr.cryptoAmount,
   currency |-> pr.currency, priceAtTime |-> pr.price, cashoutMultiplier |-> 0,
   cashoutCryptoAmount |-> 0, cashoutUsdAmount |-> 0, isWinner |-> FALSE,
   claimed |-> 0, credits |-> 0, debited |-> FALSE]

\* the in-memory part of gameRoundSchema.methods.addBet
addBet(rs, r, betData) ==
  [rs EXCEPT ![r].bets = Append(@, betData), ![r].totalBets = @ + betData.usdAmount]

\* placeBet without its balance check
SufficientBalanceSkipped(doc, usdAmount) == TRUE

\* the balance check of placeBet
SufficientBalance(doc, usdAmount) == ~(doc.usd < usdAmount)

\* placeBet from the player lookup to `await this.currentRound.addBet(betData)`:
\* the balance check, then addBet on whatever this.currentRound is now.  The
\* save variant pushes the bet in memory before its storage call, the
\* updateOne variant after it.
placeBetFound(i) ==
  /\ procs[i].op = "bet" /\ procs[i].pc = "found"
  /\ LET pr == procs[i]
         player == IF pr.doc.exists THEN pr.doc ELSE NewPlayer
         pushed == IF roundImpl = "save"
                   THEN addBet(rounds, currentRound, BetData(pr))
                   ELSE rounds
     IN IF ~SufficientBalance(player, pr.amount)
        THEN /\ procs' = Finish(i, "Insufficient USD balance")
             /\ UNCHANGED <<rounds, failures>>
        ELSE /\ rounds' = pushed
             /\ \/ /\ procs' = [procs EXCEPT ![i].pc = "added", ![i].doc = player,
                                   ![i].round = currentRound,
                                   ![i].bet = Len(pushed[currentRound].bets)]
                   /\ UNCHANGED failures
                \/ /\ Rejects
                   /\ procs' = Finish(i, "storage error")
  /\ UNCHANGED <<roundImpl, utilVars, now, schedVars, dbPlayers, ledger, requests, usdDeposited>>

\* the Transaction placeBet writes: balanceBefore is the debited balance plus
\* the stake, balanceAfter the debited balance
betTransaction(i, pr, doc) ==
  [id |-> requests, type |-> "bet", player |-> pr.player,
   currency |-> pr.currency, usdAmount |-> pr.amount, cryptoAmount |-> pr.cryptoAmount,
   before |-> <<doc.usd + pr.amount, doc.btc, doc.eth>>, after |-> Balances(doc)]

\* placeBet from the return of addBet to its own return:
\* `await player.updateWallet('usd', -usdAmount)`, then the Transaction is
\* saved, then the player's statistics
placeBetAdded(i) ==
  /\ procs[i].op = "bet" /\ procs[i].pc = "added"
  /\ LET pr == procs[i]
         rs == IF roundImpl = "updateOne" THEN addBet(rounds, pr.round, BetData(pr))
               ELSE rounds
         b == IF roundImpl = "updateOne" THEN Len(rs[pr.round].bets) ELSE pr.bet
         doc == updateWallet(pr.doc, "usd", 0 - pr.amount)
     IN \/ /\ ~DuplicateKey(dbPlayers[pr.player], doc)
           /\ dbPlayers' = [dbPlayers EXCEPT ![pr.player] = savedWallet(@, doc, "usd")]
           /\ rounds' = [rs EXCEPT ![pr.round].bets[b].debited = TRUE]
           /\ \/ /\ ledger' = ledger \cup {betTransaction(i, pr, doc)}
                 /\ procs' = Finish(i, "ok")
                 /\ UNCHANGED failures
              \/ /\ Rejects
                 /\ ledger' \in {ledger, ledger \cup {betTransaction(i, pr, doc)}}
                 /\ procs' = Finish(i, "storage error")
        \/ /\ DuplicateKey(dbPlayers[pr.player], doc)
           /\ rounds' = rs
           /\ procs' = Finish(i, "storage error")
           /\ UNCHANGED <<dbPlayers, ledger, failures>>
        \/ /\ Rejects
           /\ rounds' = rs
           /\ procs' = Finish(i, "storage error")
           /\ UNCHANGED <<dbPlayers, ledger>>
  /\ UNCHANGED <<roundImpl, utilVars, now, schedVars, requests, usdDeposited>>

\* the in-memory part of gameRoundSchema.methods.processCashout on bet b of
\* round r: the settlement record of the bet and the round's totals
settleBet(rs, r, b, multiplier) ==
  LET bet == rs[r].bets[b]
      cashoutCryptoAmount == PayoutCrypto(bet.cryptoAmount, multiplier)
      cashoutUsdAmount == PayoutUsd(cashoutCryptoAmount, bet.priceAtTime)
  IN [rs EXCEPT ![r].bets[b] = [bet EXCEPT !.cashoutMultiplier = multiplier,
                                           !.cashoutCryptoAmount = cashoutCryptoAmount,
                                           !.cashoutUsdAmount = cashoutUsdAmount,
                                           !.isWinner = TRUE],
                ![r].totalCashouts = @ + cashoutUsdAmount,
                ![r].totalWinners = @ + 1]

\* a status check that only turns crashed rounds away
NoActiveRoundCrashedOnly ==
  currentRound = 0 \/ rounds[currentRound].status = "crashed"

\* the status check of GameService.processCashout:
\* !this.currentRound || this.currentRound.status !== 'active'
NoActiveRound ==
  currentRound = 0 \/ rounds[currentRound].status # "active"

\* the elapsed time GameService.processCashout feeds the multiplier clock:
\* Date.now() - this.currentRound.startTime, the round's creation time
cashoutElapsed(r) == now - rounds[r].startTime

\* GameService.processCashout up to `await this.currentRound.processCashout(..)`:
\* the status check, the open-bet lookup, the multiplier, and the round
\* method up to its storage call.  The save variant settles the bet in memory
\* before the storage call, the updateOne variant after it.
processCashout(i, p) ==
  /\ CanCall(i)
  /\ LET pr == [IdleProc EXCEPT !.op = "cashout", !.player = p]
         activeBet == FindOpenBet(rounds[currentRound].bets, p)
         currentMultiplier == calculateMultiplier(cashoutElapsed(currentRound), GrowthFactor)
         called == [pr EXCEPT !.round = currentRound, !.bet = activeBet,
                              !.multiplier = currentMultiplier,
                              !.currency = rounds[currentRound].bets[activeBet].currency,
                              !.cryptoAmount = rounds[currentRound].bets[activeBet].cryptoAmount]
         claimed == [rounds EXCEPT ![currentRound].bets[activeBet].claimed = @ + 1]
     IN IF NoActiveRound
        THEN /\ procs' = [procs EXCEPT ![i] = Finished(pr, "No active round for cashout")]
             /\ UNCHANGED <<rounds, failures>>
        ELSE IF activeBet = 0
        THEN /\ procs' = [procs EXCEPT ![i] = Finished(pr, "No active bet found for player")]
             /\ UNCHANGED <<rounds, failures>>
        ELSE /\ rounds' = IF roundImpl = "save"
                          THEN settleBet(claimed, currentRound, activeBet, currentMultiplier)
                          ELSE claimed
             /\ \/ /\ procs' = [procs EXCEPT ![i] = [called EXCEPT !.pc = "settled"]]
                   /\ UNCHANGED failures
                \/ /\ Rejects
                   /\ procs' = [procs EXCEPT ![i] = Finished(pr, "storage error")]
  /\ UNCHANGED <<roundImpl, utilVars, now, schedVars, dbPlayers, ledger, usdDeposited>>

\* processCashout from the return of the round method to `await Player.findOne(..)`
processCashoutSettled(i) ==
  /\ procs[i].op = "cashout" /\ procs[i].pc = "settled"
  /\ LET pr == procs[i]
     IN /\ rounds' = IF roundImpl = "updateOne"
                     THEN settleBet(rounds, pr.round, pr.bet, pr.multiplier)
                     ELSE rounds
        /\ \/ /\ procs' = [procs EXCEPT ![i].pc = "found", ![i].doc = dbPlayers[pr.player]]
              /\ UNCHANGED failures
           \/ /\ Rejects
              /\ procs' = Finish(i, "storage error")
  /\ UNCHANGED <<roundImpl, utilVars, now, schedVars, dbPlayers, ledger, requests, usdDeposited>>

\* the Transaction processCashout writes: balanceBefore and balanceAfter are
\* both read from the credited document
cashoutTransaction(i, pr, doc) ==
  [id |-> requests, type |-> "cashout", player |-> pr.player,
   currency |-> pr.currency, usdAmount |-> 0,
   cryptoAmount |-> PayoutCrypto(pr.cryptoAmount, pr.multiplier),
   before |-> Balances(doc), after |-> Balances(doc)]

\* processCashout from the player lookup to its own return:
\* `await player.updateWallet(currency, payoutCrypto)`, then the player's
\* statistics are saved, then the Transaction
processCashoutFound(i) ==
  /\ procs[i].op = "cashout" /\ procs[i].pc = "found"
  /\ LET pr == procs[i]
         payoutCrypto == PayoutCrypto(pr.cryptoAmount, pr.multiplier)
         doc == updateWallet(pr.doc, pr.currency, payoutCrypto)
     IN IF ~pr.doc.exists
        THEN /\ procs' = Finish(i, "Player not found")
             /\ UNCHANGED <<rounds, dbPlayers, ledger, failures>>
        ELSE \/ /\ dbPlayers' = [dbPlayers EXCEPT ![pr.player] = savedWallet(@, doc, pr.currency)]
                /\ rounds' = [rounds EXCEPT ![pr.round].bets[pr.bet].credits = @ + 1]
                /\ \/ /\ ledger' = ledger \cup {cashoutTransaction(i, pr, doc)}
                      /\ procs' = Finish(i, "ok")
                      /\ UNCHANGED failures
                   \/ /\ Rejects
                      /\ procs' = Finish(i, "storage error")
                      /\ UNCHANGED ledger
             \/ /\ Rejects
                /\ procs' = Finish(i, "storage error")
                /\ UNCHANGED <<rounds, dbPlayers, ledger>>
  /\ UNCHANGED <<roundImpl, utilVars, now, schedVars, requests, usdDeposited>>

\* POST /api/wallet/deposit up to `await Player.findOne(..)`
deposit(i, p, amount, c) ==
  /\ CanCall(i)
  /\ LET pr == [IdleProc EXCEPT !.op = "deposit", !.player = p, !.amount = amount,
                                !.currency = c]
     IN \/ /\ procs' = [procs EXCEPT ![i] =
                 [pr EXCEPT !.pc = "found", !.doc = dbPlayers[p]]]
           /\ UNCHANGED failures
        \/ /\ Rejects
           /\ procs' = [procs EXCEPT ![i] = Finished(pr, "Failed to process deposit")]
  /\ UNCHANGED <<roundImpl, utilVars, now, schedVars, rounds, dbPlayers, ledger, usdDeposited>>

\* the Transaction the deposit route writes: balanceBefore is the credited
\* balance minus the amount
depositTransaction(i, pr, doc) ==
  [id |-> requests, type |-> "deposit", player |-> pr.player,
   currency |-> pr.currency,
   usdAmount |-> IF pr.currency = "usd" THEN pr.amount ELSE 0,
   cryptoAmount |-> IF pr.currency # "usd" THEN pr.amount ELSE 0,
   before |-> Balances(updateWallet(doc, pr.currency, 0 - pr.amount)),
   after |-> Balances(doc)]

\* deposit from the player lookup to the response:
\* `await player.updateWallet(currency, amount)`, then the Transaction is saved
depositFound(i) ==
  /\ procs[i].op = "deposit" /\ procs[i].pc = "found"
  /\ LET pr == procs[i]
         doc == updateWallet(pr.doc, pr.currency, pr.amount)
     IN IF ~pr.doc.exists
        THEN /\ procs' = Finish(i, "Player not found")
             /\ UNCHANGED <<dbPlayers, ledger, failures, usdDeposited>>
        ELSE \/ /\ dbPlayers' = [dbPlayers EXCEPT ![pr.player] = savedWallet(@, doc, pr.currency)]
                /\ usdDeposited' = IF pr.currency = "usd"
                                   THEN [usdDeposited EXCEPT ![pr.player] = @ + pr.amount]
                                   ELSE usdDeposited
                /\ \/ /\ ledger' = ledger \cup {depositTransaction(i, pr, doc)}
                      /\ procs' = Finish(i, "ok")
                      /\ UNCHANGED failures
                   \/ /\ Rejects
                      /\ procs' = Finish(i, "Failed to process deposit")
                      /\ UNCHANGED ledger
             \/ /\ Rejects
                /\ procs' = Finish(i, "Failed to process deposit")
                /\ UNCHANGED <<dbPlayers, ledger, usdDeposited>>
  /\ UNCHANGED <<roundImpl, utilVars, now, schedVars, rounds, requests>>

\* the requests of the clients, at most limit of them in a behaviour
Requests(limit) ==
  \/ \E i \in 1..NumProcs, p \in Bettors, a \in Stakes, c \in Currencies :
       requests < limit /\ placeBet(i, p, a, c)
  \/ \E i \in 1..NumProcs : placeBetPrices(i)
  \/ \E i \in 1..NumProcs : placeBetFound(i)
  \/ \E i \in 1..NumProcs : placeBetAdded(i)
  \/ \E i \in 1..NumProcs, p \in Bettors :
       requests < limit /\ processCashout(i, p)
  \/ \E i \in 1..NumProcs : processCashoutSettled(i)
  \/ \E i \in 1..NumProcs : processCashoutFound(i)
  \/ \E i \in 1..NumProcs, p \in Bettors, a \in Deposits :
       requests < limit /\ deposit(i, p, a, "usd")
  \/ \E i \in 1..NumProcs : depositFound(i)

\* ------------------------------------------------- POST /api/game/bet

\* GameRound.findOne({status: 'waiting'}).sort({startTime: -1}): the latest
\* round of the collection that is waiting, 0 if there is none
findWaitingRound ==
  LET waiting == {r \in 1..Len(rounds) : rounds[r].status = "waiting"}
  IN IF waiting = {} THEN 0 ELSE CHOOSE r \in waiting : \A q \in waiting : q <= r

\* the route up to `await GameRound.findOne(..)`: betSchema, then the query;
\* the handler gets its own document of the round, with the totalBets the
\* record holds now
routeBet(i, p, usdAmount, c) ==
  /\ CanCall(i)
  /\ LET pr == [IdleProc EXCEPT !.op = "routeBet", !.player = p, !.amount = usdAmount,
                                !.currency = c]
         r == findWaitingRound
     IN procs' = [procs EXCEPT ![i] =
          IF usdAmount <= 0 \/ c \notin {"btc", "eth"}
          THEN Finished(pr, "validation error")
          ELSE [pr EXCEPT !.pc = "round", !.round = r,
                          !.total = IF r = 0 THEN 0 ELSE dbRounds[r].totalBets]]
  /\ UNCHANGED <<roundImpl, utilVars, now, schedVars, rounds, dbPlayers, ledger, failures,
                 usdDeposited>>

\* the route from the round to `await Player.findOne({ playerId })`
routeBetRound(i) ==
  /\ procs[i].op = "routeBet" /\ procs[i].pc = "round"
  /\ IF procs[i].round = 0
     THEN /\ procs' = Finish(i, "No active round accepting bets")
          /\ UNCHANGED failures
     ELSE \/ /\ procs' = [procs EXCEPT ![i].pc = "player",
                                       ![i].doc = dbPlayers[procs[i].player]]
             /\ UNCHANGED failures
          \/ /\ Rejects
             /\ procs' = Finish(i, "storage error")
  /\ UNCHANGED <<roundImpl, utilVars, now, schedVars, rounds, dbPlayers, ledger, requests,
                 usdDeposited>>

\* the route from the player to `await cryptoApi.getAllPrices()`: a new
\* Player if there is none, then the balance check
routeBetPlayer(i) ==
  /\ procs[i].op = "routeBet" /\ procs[i].pc = "player"
  /\ LET pr == procs[i]
         player == IF pr.doc.exists THEN pr.doc ELSE NewPlayer
     IN procs' = IF player.usd < pr.amount
                 THEN Finish(i, "Insufficient USD balance")
                 ELSE [procs EXCEPT ![i].pc = "prices", ![i].doc = player]
  /\ UNCHANGED <<roundImpl, utilVars, now, schedVars, rounds, dbPlayers, ledger, failures,
                 requests, usdDeposited>>

\* addBet on the route's own document of round r: the bet and the total go to
\* the record of the round, not to the scheduler's object.  The save variant
\* sets totalBets to the total of the document, the updateOne variant
\* increments the record.
routeAddBet(db, r, betData, total, impl) ==
  [db EXCEPT ![r].bets = Append(@, betData),
             ![r].totalBets = IF impl = "save" THEN total + betData.usdAmount
                              ELSE @ + betData.usdAmount]

\* the route from the prices to `await currentRound.addBet(betData)`
routeBetPrices(i) ==
  /\ procs[i].op = "routeBet" /\ procs[i].pc = "prices"
  /\ LET pricePerCrypto == Price(procs[i].currency)
         pr == [procs[i] EXCEPT !.price = pricePerCrypto,
                                !.cryptoAmount = usdToCrypto(procs[i].amount, pricePerCrypto)]
     IN IF pricePerCrypto <= 0
        THEN /\ procs' = Finish(i, "Unable to get current crypto price")
             /\ UNCHANGED <<dbRounds, failures>>
        ELSE \/ /\ dbRounds' = routeAddBet(dbRounds, pr.round, BetData(pr), pr.total,
                                           roundImpl)
                /\ procs' = [procs EXCEPT ![i] =
                     [pr EXCEPT !.pc = "added", !.bet = Len(dbRounds[pr.round].bets) + 1]]
                /\ UNCHANGED failures
             \/ /\ Rejects
                /\ procs' = Finish(i, "storage error")
                /\ UNCHANGED dbRounds
  /\ UNCHANGED <<roundImpl, multiplierCalls, crashVars, priceVars, socketVars, now, schedVars,
                 rounds, dbPlayers, ledger, requests, usdDeposited>>

\* the route from the return of addBet to its response:
\* `await player.updateWallet('usd', -usdAmount)`, then the Transaction is
\* saved, then the player's statistics
routeBetAdded(i) ==
  /\ procs[i].op = "routeBet" /\ procs[i].pc = "added"
  /\ LET pr == procs[i]
         doc == updateWallet(pr.doc, "usd", 0 - pr.amount)
     IN \/ /\ ~DuplicateKey(dbPlayers[pr.player], doc)
           /\ dbPlayers' = [dbPlayers EXCEPT ![pr.player] = savedWallet(@, doc, "usd")]
           /\ dbRounds' = [dbRounds EXCEPT ![pr.round].bets[pr.bet].debited = TRUE]
           /\ \/ /\ ledger' = ledger \cup {betTransaction(i, pr, doc)}
                 /\ procs' = Finish(i, "ok")
                 /\ UNCHANGED failures
              \/ /\ Rejects
                 /\ ledger' \in {ledger, ledger \cup {betTransaction(i, pr, doc)}}
                 /\ procs' = Finish(i, "storage error")
        \/ /\ DuplicateKey(dbPlayers[pr.player], doc)
           /\ procs' = Finish(i, "storage error")
           /\ UNCHANGED <<dbPlayers, dbRounds, ledger, failures>>
        \/ /\ Rejects
           /\ procs' = Finish(i, "storage error")
           /\ UNCHANGED <<dbPlayers, dbRounds, ledger>>
  /\ UNCHANGED <<roundImpl, multiplierCalls, crashVars, priceVars, socketVars, now, schedVars,
                 rounds, requests, usdDeposited>>

\* requests to POST /api/game/bet, at most limit of them
RouteRequests(limit) ==
  \/ \E i \in 1..NumProcs, p \in Bettors, a \in Stakes, c \in Currencies :
       requests < limit /\ routeBet(i, p, a, c)
  \/ \E i \in 1..NumProcs : routeBetRound(i)
  \/ \E i \in 1..NumProcs : routeBetPlayer(i)
  \/ \E i \in 1..NumProcs : routeBetPrices(i)
  \/ \E i \in 1..NumProcs : routeBetAdded(i)

\* requests of every player, at most limit of them
PlayerRequests(limit) ==
  \/ \E i \in 1..NumProcs, p \in Players, a \in Stakes, c \in Currencies :
       requests < limit /\ placeBet(i, p, a, c)
  \/ \E i \in 1..NumProcs : placeBetPrices(i)
  \/ \E i \in 1..NumProcs : placeBetFound(i)
  \/ \E i \in 1..NumProcs : placeBetAdded(i)
  \/ \E i \in 1..NumProcs, p \in Players :
       requests < limit /\ processCashout(i, p)
  \/ \E i \in 1..NumProcs : processCashoutSettled(i)
  \/ \E i \in 1..NumProcs : processCashoutFound(i)
  \/ \E i \in 1..NumProcs, p \in Players, a \in Deposits :
       requests < limit /\ deposit(i, p, a, "usd")
  \/ \E i \in 1..NumProcs : depositFound(i)

\* ---------------------------------------------------- WebSocketService

\* the variables outside the socket bookkeeping
socketFrame == <<roundImpl, serviceVars, multiplierCalls, crashVars, priceVars, routeVars>>

\* io.on('connection'): a client connects with a fresh socket id
connection(s) ==
  /\ s \notin sockets
  /\ sockets' = sockets \cup {s}
  /\ UNCHANGED <<connectedClients, playerSockets, connectedPlayers, socketFrame>>

\* WebSocketService.handleAuthentication(socket, {playerId, username}); a
\* missing playerId ("") is answered with an error
handleAuthentication(s, playerId) ==
  /\ s \in sockets
  /\ IF playerId = ""
     THEN UNCHANGED <<connectedClients, playerSockets, connectedPlayers>>
     ELSE /\ connectedClients' = [connectedClients EXCEPT ![s] = playerId]
          /\ playerSockets' = [playerSockets EXCEPT ![playerId] = s]
          /\ connectedPlayers' = connectedPlayers \cup {playerId}
  /\ UNCHANGED <<sockets, socketFrame>>

\* WebSocketService.handleDisconnect(socket)
handleDisconnect(s) ==
  /\ s \in sockets
  /\ sockets' = sockets \ {s}
  /\ LET playerId == connectedClients[s]
     IN IF playerId # "none"
        THEN /\ connectedPlayers' = connectedPlayers \ {playerId}
             /\ connectedClients' = [connectedClients EXCEPT ![s] = "none"]
             /\ playerSockets' = [playerSockets EXCEPT ![playerId] = "none"]
        ELSE UNCHANGED <<connectedClients, playerSockets, connectedPlayers>>
  /\ UNCHANGED socketFrame

\* a caller applies CryptoUtils.calculateMultiplier to (elapsedTime, growthFactor)
calculateMultiplierCall(elapsedTime, growthFactor) ==
  /\ Cardinality(multiplierCalls) < MaxCalls
  /\ multiplierCalls' = multiplierCalls \cup
       {[elapsedTime |-> elapsedTime, growthFactor |-> growthFactor,
         result |-> calculateMultiplier(elapsedTime, growthFactor)]}
  /\ UNCHANGED <<roundImpl, serviceVars, crashVars, priceVars, routeVars, socketVars>>

\* a caller applies CryptoUtils.generateCrashPoint to (seed, roundId)
generateCrashPointCall(seed, roundId) ==
  /\ Len(crashPointCalls) + Len(verifyCalls) < MaxCalls
  /\ crashPointCalls' = Append(crashPointCalls,
       [seed |-> seed, roundId |-> roundId, result |-> generateCrashPoint(seed, roundId)])
  /\ UNCHANGED <<roundImpl, serviceVars, multiplierCalls, sha256, maxCrashEnv, verifyCalls,
                 priceVars, routeVars, socketVars>>

\* a caller applies CryptoUtils.verifyCrashPoint to a crash point that is a
\* generated one (call g of the log) plus d, and to (seed, roundId)
verifyCrashPointCall(g, d, seed, roundId) ==
  /\ Len(crashPointCalls) + Len(verifyCalls) < MaxCalls
  /\ g \in 1..Len(crashPointCalls)
  /\ LET crashPoint == crashPointCalls[g].result.crashPoint + d
     IN verifyCalls' = Append(verifyCalls,
          [crashPoint |-> crashPoint, seed |-> seed, roundId |-> roundId,
           result |-> verifyCrashPoint(crashPoint, seed, roundId)])
  /\ UNCHANGED <<roundImpl, serviceVars, multiplierCalls, sha256, maxCrashEnv, crashPointCalls,
                 priceVars, routeVars, socketVars>>

\* a catch of fetchPrices that always answers with this.prices
pricesAfterErrorCachedOnly(cached) == cached

\* the catch of CryptoApiService.fetchPrices: the cached prices if there are
\* any, otherwise the fallback prices
pricesAfterError(cached) ==
  IF cached.btc > 0 THEN cached ELSE FallbackPrices

\* the other variables of the price service specification
priceFrame == <<roundImpl, isRunning, currentRound, rounds, multiplierInterval,
                acts, timers, sched, dbPlayers, procs, ledger, failures, stops,
                requests, usdDeposited, multiplierCalls, crashVars, routeVars,
                socketVars>>

\* CryptoApiService.fetchPrices up to `await axios.get(..)`: recent cached
\* prices are returned without a request
fetchPrices ==
  /\ Len(priceCalls) + Len(fetches) < MaxCalls
  /\ IF now - lastFetch < CacheTimeout /\ prices.btc > 0
     THEN /\ priceCalls' = Append(priceCalls,
                [time |-> now, seen |-> Len(priceCalls), upstream |-> "none",
                 threw |-> FALSE, result |-> prices])
          /\ UNCHANGED fetches
     ELSE /\ fetches' = Append(fetches, [now |-> now, seen |-> Len(priceCalls)])
          /\ UNCHANGED priceCalls
  /\ UNCHANGED <<now, prices, lastFetch, priceFrame>>

\* fetchPrices after the await, with a well-formed response
fetchPricesResponse(k, data) ==
  /\ k \in 1..Len(fetches)
  /\ prices' = data
  /\ lastFetch' = fetches[k].now
  /\ fetches' = Remove(fetches, k)
  /\ priceCalls' = Append(priceCalls,
        [time |-> fetches[k].now, seen |-> fetches[k].seen, upstream |-> "ok",
         threw |-> FALSE, result |-> data])
  /\ UNCHANGED <<now, priceFrame>>

\* fetchPrices after the await, when the request failed or the response is
\* malformed: the catch
fetchPricesFailed(k) ==
  /\ k \in 1..Len(fetches)
  /\ fetches' = Remove(fetches, k)
  /\ priceCalls' = Append(priceCalls,
        [time |-> fetches[k].now, seen |-> fetches[k].seen, upstream |-> "failed",
         threw |-> FALSE, result |-> pricesAfterError(prices)])
  /\ UNCHANGED <<now, prices, lastFetch, priceFrame>>

\* time passes between the calls of the price service; the upstream request
\* has answered or timed out by then
priceClock ==
  /\ fetches = <<>>
  /\ now + PriceClockStep <= MaxPriceTime
  /\ now' = now + PriceClockStep
  /\ UNCHANGED <<priceVars, priceFrame>>

\* placeBet requests with valid and invalid arguments, at most limit of them
BetRequests(limit) ==
  \/ \E i \in 1..NumProcs, p \in Bettors, a \in AnyStakes, c \in AnyCurrencies :
       requests < limit /\ placeBet(i, p, a, c)
  \/ \E i \in 1..NumProcs : placeBetPrices(i)
  \/ \E i \in 1..NumProcs : placeBetFound(i)
  \/ \E i \in 1..NumProcs : placeBetAdded(i)

\* the running service with its clients
Next == Scheduler \/ clock(MaxTime) \/ Requests(MaxRequests)

\* the running service with fewer client requests
NextLight == Scheduler \/ clock(MaxTime) \/ Requests(MaxLightRequests)

\* the scheduler alone, over several rounds
NextRun == Scheduler \/ clock(MaxSchedTime)

\* the scheduler alone, over several rounds, with stop() and start() called
\* at any time
NextSched == NextRun \/ stop

Spec == Init /\ [][Next]_vars

SpecLight == Init /\ [][NextLight]_vars

SpecRun == Init /\ [][NextRun]_vars

SpecSched == Init /\ [][NextSched]_vars

\* the running service with clients that only place bets, valid or not
NextBets == Scheduler \/ clock(MaxTime) \/ BetRequests(MaxLightRequests)

SpecBets == Init /\ [][NextBets]_vars

\* calls of the multiplier function on arbitrary arguments
NextMultiplier ==
  \E t \in ElapsedTimes, g \in GrowthFactors : calculateMultiplierCall(t, g)

SpecMultiplier == Init /\ [][NextMultiplier]_vars

\* calls of the crash point functions on arbitrary arguments
NextCrashPoint ==
  \/ \E seed \in Seeds, roundId \in RoundIdStrings : generateCrashPointCall(seed, roundId)
  \/ \E g \in 1..Len(crashPointCalls), d \in Perturbations,
        seed \in Seeds, roundId \in RoundIdStrings :
          verifyCrashPointCall(g, d, seed, roundId)

SpecCrashPoint == InitCrashPoint /\ [][NextCrashPoint]_vars

\* the price service and its callers
NextPrices ==
  \/ fetchPrices
  \/ \E k \in 1..Len(fetches), data \in UpstreamPrices : fetchPricesResponse(k, data)
  \/ \E k \in 1..Len(fetches) : fetchPricesFailed(k)
  \/ priceClock

SpecPrices == Init /\ [][NextPrices]_vars

\* the running service with clients that bet through POST /api/game/bet
NextRoute == Scheduler \/ clock(MaxTime) \/ RouteRequests(MaxLightRequests)

SpecRoute == Init /\ [][NextRoute]_vars

\* clients connect, authenticate and disconnect
NextSockets ==
  \/ \E s \in SocketIds : connection(s)
  \/ \E s \in SocketIds, p \in Players \cup {""} : handleAuthentication(s, p)
  \/ \E s \in SocketIds : handleDisconnect(s)

SpecSockets == Init /\ [][NextSockets]_vars

\* the running service with the requests of two players
NextPlayers == Scheduler \/ clock(MaxTime) \/ PlayerRequests(MaxRequests)

SpecPlayers == Init /\ [][NextPlayers]_vars

\* the scheduler alone over a horizon that no retry outlives, for liveness
NextLive == Scheduler \/ clock(MaxLiveTime)

\* The event loop runs every callback that is due and every continuation whose
\* storage call has returned, and time passes: weak fairness on each
\* scheduler step and on the clock.
Fairness ==
  /\ WF_vars(start)
  /\ WF_vars(\E k \in 1..Len(sched) : startNewRoundSaved(k))
  /\ WF_vars(\E k \in 1..Len(sched) : crashRoundFinalized(k))
  /\ WF_vars(\E k \in 1..Len(timers) : startNewRoundTimer(k))
  /\ WF_vars(\E k \in 1..Len(timers) : activateRound(k))
  /\ WF_vars(\E a \in 1..Len(acts) : multiplierTick(a))
  /\ WF_vars(\E a \in 1..Len(acts) : roundTimeout(a))
  /\ WF_vars(clock(MaxLiveTime))

SpecLive == Init /\ [][NextLive]_vars /\ Fairness

\* time passes while a request handler waits on an await (a price lookup or a
\* storage call that takes longer than the time to the next timer)
clockAwaiting(horizon) ==
  /\ DueTimes # {}
  /\ \A t \in DueTimes : t > now
  /\ sched = <<>>
  /\ \E i \in 1..NumProcs : InFlight(i)
  /\ LET next == CHOOSE t \in DueTimes : \A u \in DueTimes : t <= u
     IN /\ next <= horizon
        /\ now' = next
  /\ UNCHANGED <<roundImpl, utilVars, isRunning, currentRound, rounds, multiplierInterval, acts, timers, sched, failures, stops, clientVars>>

\* the running service and its clients over the liveness horizon, with awaits
\* that may outlast a timer
NextSettle ==
  \/ Scheduler
  \/ clock(MaxLiveTime)
  \/ clockAwaiting(MaxLiveTime)
  \/ Requests(MaxLightRequests)

\* Every continuation of a handler runs once its await has returned.
HandlerFairness ==
  /\ WF_vars(\E i \in 1..NumProcs : placeBetPrices(i))
  /\ WF_vars(\E i \in 1..NumProcs : placeBetFound(i))
  /\ WF_vars(\E i \in 1..NumProcs : placeBetAdded(i))
  /\ WF_vars(\E i \in 1..NumProcs : processCashoutSettled(i))
  /\ WF_vars(\E i \in 1..NumProcs : processCashoutFound(i))
  /\ WF_vars(\E i \in 1..NumProcs : depositFound(i))

SpecSettle == Init /\ [][NextSettle]_vars /\ Fairness /\ HandlerFairness

\* ------------------------------------------------------------ properties

RoundIds == 1..Len(rounds)

BetIds(r) == 1..Len(rounds[r].bets)

NoHandlerInFlight == \A i \in 1..NumProcs : ~InFlight(i)

\* C1: of the concurrent cashouts of one bet exactly one succeeds and the
\* player is credited exactly once -- no bet is credited to a wallet more
\* than once.
C1_CreditedOnce ==
  \A r \in RoundIds : \A b \in BetIds(r) : rounds[r].bets[b].credits <= 1

\* C2: a step that marks a bet as won (its settlement record or the round's
\* winner totals change) or credits a wallet for it is taken only while the
\* bet's round is ACTIVE.
C2_SettledOnlyWhileActive ==
  [][\A r \in RoundIds :
       (\/ rounds'[r].totalWinners # rounds[r].totalWinners
        \/ \E b \in BetIds(r) :
             \/ rounds'[r].bets[b].isWinner # rounds[r].bets[b].isWinner
             \/ rounds'[r].bets[b].cashoutMultiplier # rounds[r].bets[b].cashoutMultiplier
             \/ rounds'[r].bets[b].credits # rounds[r].bets[b].credits)
       => rounds[r].status = "active"]_vars

\* C3: a round leaves ACTIVE for CRASHED only in a tick of its own activation
\* that computed a multiplier at or above its crash point, or in the
\* round-duration timeout armed by its own activation, RoundDuration after
\* that activation.
C3_CrashedByOwnTimers ==
  [][\A r \in RoundIds :
       (rounds[r].status = "active" /\ rounds'[r].status = "crashed")
       => \E a \in 1..Len(acts) :
            /\ acts[a].round = r
            /\ \/ /\ acts'[a].nextTick # acts[a].nextTick
                  /\ acts'[a].currentMultiplier >= rounds[r].crashPoint
               \/ /\ acts[a].timeoutPending /\ ~acts'[a].timeoutPending
                  /\ now - acts[a].startTime >= RoundDuration]_vars

\* C4: a bet is appended to a round's bet list only while that round is
\* WAITING.
C4_AppendedWhileWaiting ==
  [][\A r \in RoundIds :
       Len(rounds'[r].bets) > Len(rounds[r].bets) => rounds[r].status = "waiting"]_vars

\* C5: at most one round is WAITING or ACTIVE at any time.
C5_OneOpenRound ==
  Cardinality({r \in RoundIds : rounds[r].status \in {"waiting", "active"}}) <= 1

\* C6: a round is created WAITING and its status only ever changes from
\* WAITING to ACTIVE and from ACTIVE to CRASHED: no step is skipped or taken
\* twice and CRASHED is final.
C6_StatusSequence ==
  [][\A r \in 1..Len(rounds') :
       IF r > Len(rounds)
       THEN rounds'[r].status = "waiting"
       ELSE \/ rounds'[r].status = rounds[r].status
            \/ rounds[r].status = "waiting" /\ rounds'[r].status = "active"
            \/ rounds[r].status = "active" /\ rounds'[r].status = "crashed"]_vars

\* C6 witness: a round went through both transitions and the next round was
\* created.
C6_Witness ==
  \E r \in RoundIds : rounds[r].status = "crashed" /\ r < Len(rounds)

\* C7: whenever no placeBet call is in progress, every bet in a bet list has
\* had its stake debited from the player's wallet (a bet is never debited
\* without being in the list: the debit follows the append).
C7_RecordedIffDebited ==
  (\A i \in 1..NumProcs : ~(procs[i].op = "bet" /\ InFlight(i)))
  => \A r \in RoundIds : \A b \in BetIds(r) : rounds[r].bets[b].debited

RECURSIVE StakedBy(_, _, _)
\* the stakes of the bets of player p in the first n rounds
StakedBy(p, rs, n) ==
  IF n = 0 THEN 0
  ELSE LET RECURSIVE Sum(_, _)
           Sum(bets, k) == IF k = 0 THEN 0
                           ELSE Sum(bets, k - 1)
                                + (IF bets[k].playerId = p THEN bets[k].usdAmount ELSE 0)
       IN StakedBy(p, rs, n - 1) + Sum(rs[n].bets, Len(rs[n].bets))

\* C8: once the requests have returned, and every recorded bet went through
\* its debit step and no storage call was rejected, a player's usd balance is
\* the starting balance plus the usd deposits minus the stakes of the
\* recorded bets.
C8_NoLostDebit ==
  (/\ NoHandlerInFlight
   /\ failures = 0
   /\ \A r \in RoundIds : \A b \in BetIds(r) : rounds[r].bets[b].debited)
  => \A p \in Players :
       dbPlayers[p].exists
       => dbPlayers[p].usd = DefaultUsd + usdDeposited[p] - StakedBy(p, rounds, Len(rounds))

\* C9: when placeBet reaches its balance check with a stake greater than the
\* usd balance of the player it loaded, the call is rejected with the
\* insufficient-balance error and the wallets, the bet lists and totals of
\* the rounds and the ledger are unchanged.
C9_InsufficientRejected ==
  [][\A i \in 1..NumProcs :
       (/\ procs[i].op = "bet" /\ procs[i].pc = "found"
        /\ procs'[i] # procs[i]
        /\ procs[i].amount > (IF procs[i].doc.exists THEN procs[i].doc.usd ELSE DefaultUsd))
       => /\ procs'[i].pc = "done"
          /\ procs'[i].result = "Insufficient USD balance"
          /\ rounds' = rounds
          /\ dbPlayers' = dbPlayers
          /\ ledger' = ledger]_vars

\* C9 witness: a bet whose stake exceeded the balance was rejected after an
\* earlier bet of the same player was accepted and debited.
C9_Witness ==
  /\ \E i \in 1..NumProcs :
       procs[i].op = "bet" /\ procs[i].result = "Insufficient USD balance"
  /\ \E p \in Players : dbPlayers[p].exists /\ dbPlayers[p].usd < DefaultUsd

\* C10: the usd, btc and eth balances of every player are never negative.
C10_NonNegative ==
  \A p \in Players :
    dbPlayers[p].usd >= 0 /\ dbPlayers[p].btc >= 0 /\ dbPlayers[p].eth >= 0

\* C10 witness: a player was debited a stake and credited a payout.
C10_Witness ==
  \E p \in Players :
    dbPlayers[p].exists /\ dbPlayers[p].usd < DefaultUsd /\ dbPlayers[p].btc > 0

\* C11: once a round's finalization has returned, its winners and losers add
\* up to its bets, the losers are exactly the bets without a cashout, and a
\* bet without a cashout was never credited.
C11_LosersAreOpenBets ==
  \A r \in RoundIds :
    rounds[r].finalized
    => /\ rounds[r].totalWinners + rounds[r].totalLosers = Len(rounds[r].bets)
       /\ rounds[r].totalLosers = Cardinality(OpenBets(rounds[r].bets))
       /\ \A b \in OpenBets(rounds[r].bets) : rounds[r].bets[b].credits = 0

\* C12: once a round's finalization has returned, its houseProfit is its
\* totalBets minus its totalCashouts (both in 1e-6 USD).
C12_HouseProfit ==
  \A r \in RoundIds :
    rounds[r].finalized
    => rounds[r].houseProfit = rounds[r].totalBets * 1000000 - rounds[r].totalCashouts

\* C13: the multiplier a cashout applies is the multiplier clock evaluated at
\* the time elapsed since the bet's round was activated, the value a tick of
\* that activation would compute at the same instant.
C13_CashoutUsesTickClock ==
  [][\A i \in 1..NumProcs :
       (procs'[i].op = "cashout" /\ procs'[i].pc = "settled" /\ procs[i].pc # "settled")
       => \E a \in 1..Len(acts) :
            /\ acts[a].round = procs'[i].round
            /\ procs'[i].multiplier
                 = calculateMultiplier(now - acts[a].startTime, GrowthFactor)]_vars

\* the cashout handlers that are working on bet b of round r
CashoutsInFlight(r, b) ==
  {i \in 1..NumProcs : /\ procs[i].op = "cashout" /\ InFlight(i)
                       /\ procs[i].round = r /\ procs[i].bet = b}

\* C14: a cashout that returned an error left the bet open -- a bet that no
\* cashout is working on is marked as cashed out (settlement record, and with
\* it the round's totalCashouts and totalWinners) only if its payout was
\* credited.
C14_NoPartialCashout ==
  \A r \in RoundIds : \A b \in BetIds(r) :
    (CashoutsInFlight(r, b) = {} /\ rounds[r].bets[b].cashoutMultiplier # 0)
    => rounds[r].bets[b].credits >= 1

\* the object GameService.getGameState builds from a round (without the
\* roundId, which the model does not carry)
gameStateOf(round) ==
  [status |-> round.status,
   currentRound |-> [status |-> round.status, startTime |-> round.startTime,
                     crashPoint |-> round.crashPoint, totalBets |-> round.totalBets,
                     totalCashouts |-> round.totalCashouts,
                     totalWinners |-> round.totalWinners,
                     totalLosers |-> round.totalLosers]]

\* GameService.getGameState (also sent to a socket as 'gameState')
getGameState ==
  IF currentRound = 0
  THEN [status |-> "waiting", currentRound |-> "null"]
  ELSE gameStateOf(rounds[currentRound])

\* C15: while the current round is WAITING or ACTIVE the state query does not
\* disclose its crash point: the answer is the same whatever crash point was
\* drawn for the round.
C15_CrashPointConcealed ==
  (currentRound # 0 /\ rounds[currentRound].status \in {"waiting", "active"})
  => \A cp \in CrashPoints :
       gameStateOf([rounds[currentRound] EXCEPT !.crashPoint = cp]) = getGameState

\* a retry timer armed by the catch of startNewRound is pending
RetryPending == \E k \in 1..Len(timers) : timers[k].kind = "retry"

\* C16: after a failed round creation (the retry timer is armed) a new WAITING
\* round is eventually created and becomes the current round, as long as the
\* behaviour has a round left to create.
C16_RetryCreatesRound ==
  \A n \in 1..(MaxRounds - 1) :
    (Len(rounds) = n /\ RetryPending)
      ~> (Len(rounds) = n + 1 /\ currentRound = n + 1
          /\ rounds[n + 1].status = "waiting")

\* the creation of round 1 failed (it was never activated) and the retry
\* created round 2 after the backoff
C16_Witness ==
  /\ Len(rounds) = 2
  /\ now = RetryDelay
  /\ rounds[1].status = "waiting"
  /\ rounds[2].status = "waiting"
  /\ currentRound = 2

\* player p has no open bet in the current round
NoOpenBet(p) ==
  \A b \in OpenBets(rounds[currentRound].bets) :
    rounds[currentRound].bets[b].playerId # p

\* a bet whose payout was credited is settled, so it is not open any more
CreditedIsSettled ==
  \A r \in RoundIds : \A b \in BetIds(r) :
    rounds[r].bets[b].credits >= 1 => rounds[r].bets[b].cashoutMultiplier # 0

\* C17: a processCashout call for a player with no open bet in the ACTIVE
\* round (never bet, or already cashed out) fails with 'No active bet found
\* for player' and changes neither the round nor any balance; a bet that was
\* paid is not open, so that is what a second cashout after a successful one
\* gets.
C17_NoOpenBetRejected ==
  /\ []CreditedIsSettled
  /\ [][\A i \in 1..NumProcs, p \in Players :
          (/\ currentRound # 0
           /\ rounds[currentRound].status = "active"
           /\ NoOpenBet(p)
           /\ processCashout(i, p))
          => /\ procs'[i].pc = "done"
             /\ procs'[i].result = "No active bet found for player"
             /\ rounds' = rounds
             /\ dbPlayers' = dbPlayers]_vars

\* a second cashout was rejected after the first one was paid
C17_Witness ==
  /\ currentRound # 0
  /\ rounds[currentRound].status = "active"
  /\ \E b \in BetIds(currentRound) : rounds[currentRound].bets[b].credits = 1
  /\ \A b \in BetIds(currentRound) : rounds[currentRound].bets[b].credits <= 1
  /\ \E i \in 1..NumProcs :
       /\ procs[i].op = "cashout" /\ procs[i].pc = "done"
       /\ procs[i].result = "No active bet found for player"

\* C18: a processCashout call while there is no current round or the current
\* round is not ACTIVE fails with 'No active round for cashout' and changes no
\* round and no balance.
C18_NotActiveRejected ==
  [][\A i \in 1..NumProcs, p \in Players :
       (/\ (currentRound = 0 \/ rounds[currentRound].status \in {"waiting", "crashed"})
        /\ processCashout(i, p))
       => /\ procs'[i].pc = "done"
          /\ procs'[i].result = "No active round for cashout"
          /\ rounds' = rounds
          /\ dbPlayers' = dbPlayers]_vars

\* a cashout was turned away although the player has an open bet in the
\* current round: the round is still WAITING
C18_Witness ==
  /\ currentRound # 0
  /\ rounds[currentRound].status = "waiting"
  /\ \E p \in Players : ~NoOpenBet(p)
  /\ \E i \in 1..NumProcs :
       /\ procs[i].op = "cashout" /\ procs[i].pc = "done"
       /\ procs[i].result = "No active round for cashout"

\* the usd balance a placeBet debits: the stored one, or the default of the
\* Player document it creates
UsdBalance(p) == IF dbPlayers[p].exists THEN dbPlayers[p].usd ELSE DefaultUsd

\* C19: the step in which a placeBet of stake s at rate p returns successfully
\* leaves the player's usd balance exactly s below what it was, with its one
\* bet recorded at cryptoAmount = s / p (8 decimals) and priceAtTime = p; a
\* stake of 10 at 10000 is recorded as 0.001 coin.
C19_ExactDebit ==
  [][\A i \in 1..NumProcs :
       (/\ procs[i].op = "bet" /\ procs[i].pc = "added"
        /\ procs'[i].pc = "done" /\ procs'[i].result = "ok")
       => LET pr == procs[i]
              bets == rounds'[pr.round].bets
              mine == {b \in 1..Len(bets) :
                         /\ bets[b].debited
                         /\ ~(b <= Len(rounds[pr.round].bets)
                              /\ rounds[pr.round].bets[b].debited)}
          IN /\ dbPlayers'[pr.player].usd = UsdBalance(pr.player) - pr.amount
             /\ Cardinality(mine) = 1
             /\ \A b \in mine :
                  /\ bets[b].playerId = pr.player
                  /\ bets[b].usdAmount = pr.amount
                  /\ bets[b].priceAtTime = Price(pr.currency)
                  /\ bets[b].cryptoAmount = usdToCrypto(pr.amount, Price(pr.currency))
                  /\ (pr.amount = 10 /\ Price(pr.currency) = 10000)
                       => bets[b].cryptoAmount = 100000]_vars

\* wallet[currency] of a Player document
Wallet(doc, c) ==
  IF c = "usd" THEN doc.usd ELSE IF c = "btc" THEN doc.btc ELSE doc.eth

\* C20: the step in which a processCashout at multiplier m returns
\* successfully raises the player's balance in the bet's currency by exactly
\* cryptoAmount * m, and the bet carries cashoutMultiplier = m,
\* cashoutCryptoAmount = cryptoAmount * m and cashoutUsdAmount =
\* cryptoAmount * m * priceAtTime.
C20_ExactCredit ==
  [][\A i \in 1..NumProcs :
       (/\ procs[i].op = "cashout" /\ procs[i].pc = "found"
        /\ procs'[i].pc = "done" /\ procs'[i].result = "ok")
       => LET pr == procs[i]
              bet == rounds'[pr.round].bets[pr.bet]
              m == pr.multiplier
          IN /\ Wallet(dbPlayers'[pr.player], bet.currency)
                  = Wallet(dbPlayers[pr.player], bet.currency)
                      + PayoutCrypto(bet.cryptoAmount, m)
             /\ bet.cashoutMultiplier = m
             /\ bet.cashoutCryptoAmount = PayoutCrypto(bet.cryptoAmount, m)
             /\ bet.cashoutUsdAmount
                  = PayoutUsd(PayoutCrypto(bet.cryptoAmount, m), bet.priceAtTime)]_vars

\* the place of a currency in a Transaction's balanceBefore / balanceAfter
BalanceOf(balance, c) ==
  IF c = "usd" THEN balance[1] ELSE IF c = "btc" THEN balance[2] ELSE balance[3]

\* C21: every ledger entry records the balances before and after its
\* mutation: balanceAfter minus balanceBefore is minus the stake (in usd) for
\* a bet, plus the payout (in the bet's currency) for a cashout and plus the
\* amount (in the deposited currency) for a deposit.
C21_LedgerDelta ==
  \A t \in ledger :
    /\ t.type = "bet"
         => BalanceOf(t.after, "usd") - BalanceOf(t.before, "usd") = 0 - t.usdAmount
    /\ t.type = "cashout"
         => BalanceOf(t.after, t.currency) - BalanceOf(t.before, t.currency)
              = t.cryptoAmount
    /\ t.type = "deposit"
         => BalanceOf(t.after, t.currency) - BalanceOf(t.before, t.currency)
              = t.usdAmount + t.cryptoAmount

\* C22: calculateMultiplier returns 1.0 for a negative elapsed time and never
\* returns a multiplier below 1.0.
C22_NegativeElapsedIsBaseline ==
  \A c \in multiplierCalls :
    /\ c.result >= 10000
    /\ c.elapsedTime < 0 => c.result = 10000

\* C23: calculateMultiplier(0, g) is 1.0 for every growth factor g; for
\* non-negative elapsed times t1 <= t2 the result at t1 is at most the result
\* at t2; and the result is above 1.0 once the growth (t / 1000) * g has
\* reached one rounding step, 0.0001.
C23_BaselineAndMonotone ==
  /\ \A c \in multiplierCalls :
       /\ c.elapsedTime = 0 => c.result = 10000
       /\ (c.elapsedTime > 0 /\ c.elapsedTime * c.growthFactor >= 1000)
            => c.result > 10000
  /\ \A c1, c2 \in multiplierCalls :
       (/\ c1.growthFactor = c2.growthFactor
        /\ 0 <= c1.elapsedTime
        /\ c1.elapsedTime <= c2.elapsedTime)
       => c1.result <= c2.result

\* the function was called at 0 and at a later time with the same positive
\* growth factor, and the later result is the larger one
C23_Witness ==
  \E c1, c2 \in multiplierCalls :
    /\ c1.growthFactor = c2.growthFactor
    /\ c1.growthFactor > 0
    /\ c1.elapsedTime = 0
    /\ c2.elapsedTime > 0
    /\ c1.result < c2.result

\* C24: two generateCrashPoint calls with the same seed and roundId return
\* the same crash point and hash; verifyCrashPoint accepts the crash point
\* generated for its seed and roundId and rejects a value that differs from
\* it by more than the tolerance.
C24_DeterministicAndVerifiable ==
  /\ \A i, j \in 1..Len(crashPointCalls) :
       (/\ crashPointCalls[i].seed = crashPointCalls[j].seed
        /\ crashPointCalls[i].roundId = crashPointCalls[j].roundId)
       => /\ crashPointCalls[i].result.crashPoint = crashPointCalls[j].result.crashPoint
          /\ crashPointCalls[i].result.hash = crashPointCalls[j].result.hash
  /\ \A g \in 1..Len(crashPointCalls), v \in 1..Len(verifyCalls) :
       (/\ crashPointCalls[g].seed = verifyCalls[v].seed
        /\ crashPointCalls[g].roundId = verifyCalls[v].roundId)
       => LET generated == crashPointCalls[g].result.crashPoint
              crashPoint == verifyCalls[v].crashPoint
          IN /\ crashPoint = generated => verifyCalls[v].result
             /\ (\/ crashPoint - generated > VerifyTolerance
                 \/ generated - crashPoint > VerifyTolerance)
                  => ~verifyCalls[v].result

\* a crash point was generated and a value 0.0011 above it was rejected for
\* the same seed and roundId
C24_Witness ==
  \E g \in 1..Len(crashPointCalls), v \in 1..Len(verifyCalls) :
    /\ crashPointCalls[g].seed = verifyCalls[v].seed
    /\ crashPointCalls[g].roundId = verifyCalls[v].roundId
    /\ verifyCalls[v].crashPoint = crashPointCalls[g].result.crashPoint + 11
    /\ ~verifyCalls[v].result

\* C25: every crash point generateCrashPoint returns is at least 1 and at
\* most the configured maximum crash multiplier (100 when none is configured).
C25_CrashPointRange ==
  \A g \in 1..Len(crashPointCalls) :
    /\ crashPointCalls[g].result.crashPoint >= 10000
    /\ crashPointCalls[g].result.crashPoint
         <= (IF maxCrashEnv # 0 THEN maxCrashEnv ELSE DefaultMaxCrash)

\* a digest at the top of the range was cut down to the configured maximum,
\* and one at the bottom raised to 1
C25_Witness ==
  /\ maxCrashEnv # 0
  /\ \E g \in 1..Len(crashPointCalls) :
       /\ crashPointCalls[g].result.randomValue = 65535
       /\ crashPointCalls[g].result.crashPoint = maxCrashEnv
  /\ \E g \in 1..Len(crashPointCalls) :
       /\ crashPointCalls[g].result.randomValue = 0
       /\ crashPointCalls[g].result.crashPoint = 10000

\* C26: a placeBet call with a stake that is not positive or with an
\* unsupported currency is rejected at once: the handler is done with the
\* validation error, no bet is recorded, no balance changes and no ledger
\* entry is written.
C26_InvalidBetRejected ==
  [][\A i \in 1..NumProcs, p \in Players, a \in AnyStakes, c \in AnyCurrencies :
       ((a <= 0 \/ c \notin {"btc", "eth"}) /\ placeBet(i, p, a, c))
       => /\ procs'[i].pc = "done"
          /\ procs'[i].result \in {"Invalid bet amount", "Invalid currency"}
          /\ rounds' = rounds
          /\ dbPlayers' = dbPlayers
          /\ ledger' = ledger]_vars

\* a bet in an unsupported currency was turned away while the round was
\* accepting bets
C26_Witness ==
  /\ currentRound # 0
  /\ rounds[currentRound].status = "waiting"
  /\ \E i \in 1..NumProcs :
       /\ procs[i].op = "bet" /\ procs[i].pc = "done"
       /\ procs[i].result = "Invalid currency"

\* the calls of the log that fetched prices from upstream before call c returned
FetchedBefore(c) == {f \in 1..(c - 1) : priceCalls[f].upstream = "ok"}

\* the last of them
LastFetched(c) == CHOOSE f \in FetchedBefore(c) : \A g \in FetchedBefore(c) : g <= f

\* the calls that had fetched prices from upstream when call c was made
FetchedBeforeCall(c) == {f \in 1..priceCalls[c].seen : priceCalls[f].upstream = "ok"}

\* the last of them
LastFetchedBeforeCall(c) ==
  CHOOSE f \in FetchedBeforeCall(c) : \A g \in FetchedBeforeCall(c) : g <= f

\* C27: fetchPrices never fails its caller; when the upstream request fails
\* it returns the last successfully fetched prices, or the fallback prices if
\* there are none; and within the cache TTL after a successful fetch it
\* returns those prices without a new upstream request (a call made after
\* that fetch had returned).
C27_PricesAlwaysServed ==
  \A c \in 1..Len(priceCalls) :
    /\ ~priceCalls[c].threw
    /\ priceCalls[c].result.btc > 0
    /\ priceCalls[c].upstream = "failed"
         => priceCalls[c].result
              = (IF FetchedBefore(c) = {} THEN FallbackPrices
                 ELSE priceCalls[LastFetched(c)].result)
    /\ (/\ FetchedBeforeCall(c) # {}
        /\ priceCalls[c].time - priceCalls[LastFetchedBeforeCall(c)].time < CacheTimeout)
         => /\ priceCalls[c].upstream = "none"
            /\ priceCalls[c].result = priceCalls[LastFetchedBeforeCall(c)].result

\* the first request failed and was answered with the fallback prices
C27_Witness ==
  /\ Len(priceCalls) >= 1
  /\ priceCalls[1].upstream = "failed"
  /\ priceCalls[1].result = FallbackPrices

\* the open bets of player p in round r
OpenBetsOf(r, p) == {b \in OpenBets(rounds[r].bets) : rounds[r].bets[b].playerId = p}

\* C28: a player has at most one open (not yet cashed out) bet in a round at
\* any time.
C28_OneOpenBetPerPlayer ==
  \A r \in RoundIds : \A p \in Players : Cardinality(OpenBetsOf(r, p)) <= 1

\* C29: a stop() call while the current round is ACTIVE finalizes that round
\* (its status becomes CRASHED, with the losers counted) and clears the tick
\* interval.
C29_StopFinalizes ==
  [][(/\ stops' # stops
      /\ currentRound # 0
      /\ rounds[currentRound].status = "active")
     => /\ rounds'[currentRound].status = "crashed"
        /\ rounds'[currentRound].totalLosers
             = Cardinality(OpenBets(rounds[currentRound].bets))
        /\ multiplierInterval' = 0]_vars

\* C30: while the service is stopped no round is created, activated or
\* crashed and no multiplier is computed for an update, whichever timers
\* were pending when stop() was called.
C30_QuiescentAfterStop ==
  [][(~isRunning /\ ~isRunning')
     => /\ Len(rounds') = Len(rounds)
        /\ \A r \in RoundIds : rounds'[r].status = rounds[r].status
        /\ Len(acts') = Len(acts)
        /\ \A a \in 1..Len(acts) :
             acts'[a].currentMultiplier = acts[a].currentMultiplier]_vars

\* C31: the multiplier at which a bet is cashed out never exceeds the crash
\* point of the bet's round.
C31_CashoutBelowCrashPoint ==
  \A r \in RoundIds : \A b \in BetIds(r) :
    rounds[r].bets[b].cashoutMultiplier <= rounds[r].crashPoint

\* a bet is settled once it has a cashout or the finalization of its round
\* counted every bet of the round that has none
Settled(r, b) ==
  \/ rounds[r].bets[b].cashoutMultiplier # 0
  \/ /\ rounds[r].finalized
     /\ rounds[r].totalLosers = Cardinality(OpenBets(rounds[r].bets))

\* C32: with fair timers and no storage failure, every bet recorded in a round
\* is eventually cashed out or counted as a loss by the finalization of that
\* round.
C32_BetsSettled ==
  \A r \in 1..MaxRounds : \A b \in 1..MaxLightRequests :
    (r \in RoundIds /\ b \in BetIds(r))
      ~> (failures > 0 \/ (r \in RoundIds /\ b \in BetIds(r) /\ Settled(r, b)))

\* the multipliers activation a has computed so far: the initial 1.0 of its
\* closure and calculateMultiplier at each tick that has run
Computed(a) ==
  {calculateMultiplier(n * MultiplierUpdateInterval, GrowthFactor) :
     n \in 0..(((acts[a].nextTick - acts[a].startTime) \div MultiplierUpdateInterval) - 1)}

\* the multipliers computed for round r
ComputedFor(r) ==
  UNION {Computed(a) : a \in {x \in 1..Len(acts) : acts[x].round = r}}

\* crashRound emits roundCrashed for the round of entry k of sched
roundCrashed(k) ==
  /\ crashRoundFinalized(k)
  /\ failures' = failures

\* C33: the events of a round come in the order roundStart, roundActivated,
\* multiplierUpdate*, one roundCrashed: roundActivated is emitted for a round
\* whose roundStart was emitted, multiplierUpdate only for an active round
\* whose roundCrashed was not emitted, roundCrashed once per round, and its
\* finalMultiplier is a multiplier computed for that round.
C33_EventOrder ==
  [][
     /\ \A k \in 1..Len(timers) :
          (activateRound(k) /\ rounds' # rounds)
            => \A j \in 1..Len(sched) : sched[j].round # currentRound
     /\ \A a \in 1..Len(acts) :
          multiplierTick(a)
            => /\ rounds[currentRound].status = "active"
               /\ ~rounds[currentRound].finalized
     /\ \A k \in 1..Len(sched) :
          roundCrashed(k)
            => /\ ~rounds[sched[k].round].finalized
               /\ sched[k].mult \in ComputedFor(sched[k].round)
    ]_vars

RECURSIVE SumUsdAmount(_, _)
\* the sum of usdAmount over the first n bets
SumUsdAmount(bets, n) ==
  IF n = 0 THEN 0 ELSE SumUsdAmount(bets, n - 1) + bets[n].usdAmount

RECURSIVE SumCashoutUsd(_, _)
\* the sum of cashoutUsdAmount over those of the first n bets that have a cashout
SumCashoutUsd(bets, n) ==
  IF n = 0 THEN 0
  ELSE SumCashoutUsd(bets, n - 1)
         + (IF bets[n].cashoutMultiplier # 0 THEN bets[n].cashoutUsdAmount ELSE 0)

\* C34: while no bet or cashout is in progress, the totals of every round are
\* those of its bets: totalBets is the sum of usdAmount, totalWinners the
\* number of bets with a cashout, totalCashouts the sum of their
\* cashoutUsdAmount.
C34_TotalsMatchBets ==
  NoHandlerInFlight =>
    \A r \in RoundIds :
      LET bets == rounds[r].bets
      IN /\ rounds[r].totalBets = SumUsdAmount(bets, Len(bets))
         /\ rounds[r].totalWinners = Len(bets) - Cardinality(OpenBets(bets))
         /\ rounds[r].totalCashouts = SumCashoutUsd(bets, Len(bets))

\* the bets in the persisted record of round r: those the scheduler's object
\* holds and those written through other documents
PersistedBets(r) == rounds[r].bets \o dbRounds[r].bets

\* C35: the scheduler's round and the persisted record agree: every bet of
\* the record, the bets placed through POST /api/game/bet included, is a bet
\* of the scheduler's round and is counted in its totalBets, and once the
\* round is finalized the bets without a cashout are its totalLosers.
C35_RouteBetCounted ==
  (NoHandlerInFlight /\ failures = 0) =>
    \A r \in RoundIds :
      /\ rounds[r].bets = PersistedBets(r)
      /\ rounds[r].totalBets = SumUsdAmount(PersistedBets(r), Len(PersistedBets(r)))
      /\ rounds[r].finalized
           => rounds[r].totalLosers = Cardinality(OpenBets(PersistedBets(r)))

\* round r exists and has this status
HasStatus(r, status) == r \in RoundIds /\ rounds[r].status = status

\* C36: while the service runs, with fair timers and no storage failure, every
\* created round becomes ACTIVE and then CRASHED, and after each crash a new
\* WAITING round is created (as long as the behaviour has a round left to
\* create).
C36_RoundsProgress ==
  \A r \in 1..MaxRounds :
    /\ HasStatus(r, "waiting") ~> (failures > 0 \/ HasStatus(r, "active"))
    /\ HasStatus(r, "active") ~> (failures > 0 \/ HasStatus(r, "crashed"))
    /\ (r < MaxRounds /\ HasStatus(r, "crashed"))
         ~> (failures > 0 \/ (currentRound > r /\ Len(rounds) > r))

\* without any storage failure the last round was crashed by its round-duration
\* timeout (its crash point is out of reach of the ticks) after the rounds
\* before it
C36_Witness ==
  /\ failures = 0
  /\ Len(rounds) = MaxRounds
  /\ \A r \in RoundIds : rounds[r].status = "crashed"
  /\ \E a \in 1..Len(acts) :
       /\ acts[a].round = MaxRounds
       /\ ~acts[a].timeoutPending
       /\ acts[a].currentMultiplier < rounds[MaxRounds].crashPoint

\* the tick loops (setInterval of activateRound) that are running
RunningIntervals == {a \in 1..Len(acts) : acts[a].live}

\* C37: at most one multiplier tick loop is running, and none unless the
\* current round is ACTIVE, whatever start(), stop() and the timers do.
C37_OneTickLoop ==
  /\ Cardinality(RunningIntervals) <= 1
  /\ RunningIntervals # {}
       => currentRound # 0 /\ rounds[currentRound].status = "active"

\* the balance of player p in currency c in the collection db: the stored
\* one, or the default of the Player document its first bet creates
StoredBalance(db, p, c) ==
  IF db[p].exists THEN Wallet(db[p], c) ELSE Wallet(NewPlayer, c)

\* the balances (player, currency) that this step changes
ChangedBalances ==
  {x \in Players \X {"usd", "btc", "eth"} :
     StoredBalance(dbPlayers', x[1], x[2]) # StoredBalance(dbPlayers, x[1], x[2])}

\* C38: a step of placeBet changes no balance but the usd balance of the
\* betting player, a step of processCashout none but that player's balance in
\* the currency of the bet; the player's other balances and the balances of
\* every other player stay as they are.
C38_FrameOfBetAndCashout ==
  [][\A i \in 1..NumProcs :
       (InFlight(i) /\ procs'[i] # procs[i])
       => LET pr == procs[i]
          IN /\ pr.op = "bet" => ChangedBalances \subseteq {<<pr.player, "usd">>}
             /\ pr.op = "cashout"
                  => \A x \in ChangedBalances :
                       x = <<pr.player, rounds[pr.round].bets[pr.bet].currency>>]_vars

\* both players have staked, and one of them was credited a cashout in btc
\* while the other has a debited usd balance
C38_Witness ==
  /\ \A p \in Players : dbPlayers[p].exists /\ dbPlayers[p].usd < DefaultUsd
  /\ \E p \in Players : dbPlayers[p].btc > 0

\* the player ids that have a connected socket authenticated as them
AuthenticatedPlayers ==
  {connectedClients[s] : s \in {x \in sockets : connectedClients[x] # "none"}}

\* C39: connectedPlayers holds exactly the player ids that have at least one
\* authenticated, connected socket.
C39_ConnectedPlayersExact == connectedPlayers = AuthenticatedPlayers

====
